---- MODULE Spec2Model ----
(***************************************************************************)
(* Model of the persistent-run-buttons extension (src/src/extension.ts):   *)
(* the module-level selection state, the enumeration of launch             *)
(* configurations over the workspace folders, the persisted key, and the   *)
(* command handlers with their suspension points.                          *)
(*                                                                         *)
(* Strings are sequences of one-character strings, so that the key         *)
(* `${folder.name}:${name}` and key.split(':') are computed, not assumed.  *)
(***************************************************************************)
EXTENDS Naturals, Sequences, FiniteSets

\* ---------------------------------------------------------------- bounds

\* Largest number of workspace folders open at once.
MaxRoots == 2

\* ------------------------------------------------------------ JS values

\* JavaScript's undefined, for the record-valued slots of the program.
Undefined == [undefined |-> TRUE]

\* A string value held in an optional slot (workspaceState.get<string>).
Str(s) == [value |-> s]

Colon == ":"

\* ------------------------------------------------ the host's environment

NameA == <<"A">>
NameB == <<"B">>
NameAL == <<"A", ":", "L">>
Launch == <<"L">>
Test == <<"T">>
LaunchTest == <<"L", ":", "T">>

\* A DebugConfiguration payload: its name, whether it carries a 'type'
\* property, whether it carries a 'configurations' property, and the rest of
\* its contents (rev).
Payload(n, t, c, r) == [name |-> n, type |-> t, configurations |-> c, rev |-> r]

PlainLaunch == Payload(Launch, TRUE, FALSE, 1)
PlainLaunch2 == Payload(Launch, TRUE, FALSE, 2)
PlainTest == Payload(Test, TRUE, FALSE, 1)
PlainColon == Payload(LaunchTest, TRUE, FALSE, 1)
BothTest == Payload(Test, TRUE, TRUE, 1)
CompoundLaunch == Payload(Launch, FALSE, TRUE, 1)
NeitherTest == Payload(Test, FALSE, FALSE, 1)

\* What one folder's launch settings may hold: the 'configurations' list and
\* the 'compounds' list.
LaunchFile(cs, ks) == [configurations |-> cs, compounds |-> ks]

\* A WorkspaceFolder handle: its identity (uri) and its display name.
Folder(u, n) == [uri |-> u, name |-> n]

\* One workspace folder together with its launch settings.
Root(f, l) == [folder |-> f, launch |-> l]

FolderA == Folder(1, NameA)
FolderB == Folder(2, NameB)
FolderA2 == Folder(2, NameA)
FolderAL == Folder(3, NameAL)

\* The folders the host may open while the extension runs, each with the
\* launch settings it may have.
Roots ==
  { Root(FolderA, LaunchFile(<<>>, <<>>)),
    Root(FolderA, LaunchFile(<<PlainLaunch, PlainTest>>, <<>>)),
    Root(FolderA, LaunchFile(<<PlainTest>>, <<>>)),
    Root(FolderA, LaunchFile(<<PlainLaunch2, BothTest, PlainColon>>,
                             <<CompoundLaunch, NeitherTest>>)),
    Root(FolderB, LaunchFile(<<PlainLaunch>>, <<>>)) }

\* The folders a session may start with: those, and folders sharing a display
\* name or carrying the separator in it.
StartupRoots ==
  Roots \cup
  { Root(FolderB, LaunchFile(<<>>, <<CompoundLaunch>>)),
    Root(FolderA2, LaunchFile(<<PlainLaunch, PlainTest>>, <<>>)),
    Root(FolderAL, LaunchFile(<<PlainTest>>, <<>>)) }

RECURSIVE SeqsUpTo(_, _)
SeqsUpTo(S, n) ==
  IF n = 0 THEN { <<>> }
  ELSE LET shorter == SeqsUpTo(S, n - 1)
       IN shorter \cup { Append(s, x) : s \in { t \in shorter : Len(t) = n - 1 }, x \in S }

\* The workspaces over a set of folders: at most MaxRoots of them, in uri
\* order, no folder twice.
WorkspacesOver(roots) ==
  { w \in SeqsUpTo(roots, MaxRoots) :
      \A i \in 1..Len(w) : \A j \in 1..Len(w) :
        i < j => w[i].folder.uri < w[j].folder.uri }

Workspaces == WorkspacesOver(Roots)

StartupWorkspaces == WorkspacesOver(StartupRoots)

\* -------------------------------------------------------- pure functions

\* isCompound testing for the member list alone.
isCompoundIgnoringType(config) == config.configurations

\* isCompound: 'configurations' in config && !('type' in config).
isCompound(config) == config.configurations /\ ~config.type

\* The entries of one folder with the compounds ahead of the configurations.
EntriesOfCompoundsFirst(root) ==
  LET flat == root.launch.compounds \o root.launch.configurations
  IN [i \in 1..Len(flat) |->
        [name |-> flat[i].name, config |-> flat[i], folder |-> root.folder]]

\* The entries one folder contributes: [configurations, compounds].flat(),
\* each pushed as {name: config.name, config, folder}.
EntriesOf(root) ==
  LET flat == root.launch.configurations \o root.launch.compounds
  IN [i \in 1..Len(flat) |->
        [name |-> flat[i].name, config |-> flat[i], folder |-> root.folder]]

\* getAllConfigs: the folders' entries, folder by folder; no folders, no entries.
RECURSIVE getAllConfigs(_)
getAllConfigs(ws) ==
  IF Len(ws) = 0 THEN <<>>
  ELSE EntriesOf(Head(ws)) \o getAllConfigs(Tail(ws))

\* getConfigKey: `${cfg.folder.name}:${cfg.name}`.
getConfigKey(cfg) == cfg.folder.name \o <<Colon>> \o cfg.name

\* String.prototype.split(':'): the pieces between the separators, all of
\* them; the empty string splits into one empty piece.
RECURSIVE SplitAcc(_, _, _)
SplitAcc(s, piece, done) ==
  IF Len(s) = 0 THEN Append(done, piece)
  ELSE IF Head(s) = Colon THEN SplitAcc(Tail(s), <<>>, Append(done, piece))
  ELSE SplitAcc(Tail(s), Append(piece, Head(s)), done)

Split(s) == SplitAcc(s, <<>>, <<>>)

\* getConfigFromKey matching the configuration name and not the folder name.
getConfigFromKeyByName(key, ws) ==
  LET parts == Split(key)
      configs == getAllConfigs(ws)
      hit == { i \in 1..Len(configs) :
                 Len(parts) >= 2 /\ configs[i].name = parts[2] }
  IN IF hit = {} THEN Undefined
     ELSE configs[CHOOSE i \in hit : \A j \in hit : i <= j]

\* getConfigFromKey: const [folderName, configName] = key.split(':'), the first
\* two pieces (configName is undefined when there is one piece only, and then
\* no entry's name equals it); then configs.find on both names: the first
\* entry satisfying the test, or undefined.
getConfigFromKey(key, ws) ==
  LET parts == Split(key)
      configs == getAllConfigs(ws)
      hit == { i \in 1..Len(configs) :
                 /\ Len(parts) >= 2
                 /\ configs[i].folder.name = parts[1]
                 /\ configs[i].name = parts[2] }
  IN IF hit = {} THEN Undefined
     ELSE configs[CHOOSE i \in hit : \A j \in hit : i <= j]

\* The selection is still enumerated when the very entry object is in the
\* enumeration (configs.includes(selectedConfig)).
stillExistsByValue(sel, configs) ==
  \E i \in 1..Len(configs) : configs[i] = sel

\* configs.some(cfg => cfg.folder.name === currentFolder && cfg.name === currentName)
stillExists(sel, configs) ==
  \E i \in 1..Len(configs) :
    configs[i].folder.name = sel.folder.name /\ configs[i].name = sel.name

\* The icon every text of the configuration button starts with.
LabelPrefix == "$(debug-configure) "

\* The label without the text for no selection.
LabelOfNoSentinel(sel) ==
  IF sel # Undefined THEN <<LabelPrefix>> \o sel.name
  ELSE <<LabelPrefix>>

\* configButton.text: the selection's name after the icon, or 'No Config'.
LabelOf(sel) ==
  IF sel # Undefined THEN <<LabelPrefix>> \o sel.name
  ELSE <<LabelPrefix, "No Config">>

\* What window.createStatusBarItem returns: no text yet, not shown.
NewButton == [text |-> <<>>, shown |-> FALSE]

\* updateStatusBar writing the label before it validates the selection.
updateStatusBarLabelFirst(sel, button, ws) ==
  IF button = Undefined THEN [selectedConfig |-> sel, configButton |-> button]
  ELSE LET configs == getAllConfigs(ws)
           sel2 == IF sel # Undefined /\ ~stillExists(sel, configs)
                   THEN (IF Len(configs) > 0 THEN configs[1] ELSE Undefined)
                   ELSE sel
       IN [selectedConfig |-> sel2,
           configButton |-> [button EXCEPT !.text = LabelOf(sel)]]

\* updateStatusBar defaulting to the first entry when nothing is selected.
updateStatusBarDefaulting(sel, button, ws) ==
  IF button = Undefined THEN [selectedConfig |-> sel, configButton |-> button]
  ELSE LET configs == getAllConfigs(ws)
           sel2 == IF sel = Undefined \/ ~stillExists(sel, configs)
                   THEN (IF Len(configs) > 0 THEN configs[1] ELSE Undefined)
                   ELSE sel
       IN [selectedConfig |-> sel2,
           configButton |-> [button EXCEPT !.text = LabelOf(sel2)]]

\* updateStatusBar on (selectedConfig, configButton): returns both as it
\* leaves them.
updateStatusBar(sel, button, ws) ==
  IF button = Undefined THEN [selectedConfig |-> sel, configButton |-> button]
  ELSE LET configs == getAllConfigs(ws)
           sel2 == IF sel # Undefined /\ ~stillExists(sel, configs)
                   THEN (IF Len(configs) > 0 THEN configs[1] ELSE Undefined)
                   ELSE sel
       IN [selectedConfig |-> sel2,
           configButton |-> [button EXCEPT !.text = LabelOf(sel2)]]

\* updateStatusBarVisibility on (selectedConfig, configButton) under the
\* showInStatusBar setting.
updateStatusBarVisibility(sel, button, shouldShow, ws) ==
  IF shouldShow
  THEN LET created == IF button = Undefined THEN NewButton ELSE button
       IN updateStatusBar(sel, [created EXCEPT !.shown = TRUE], ws)
  ELSE [selectedConfig |-> sel,
        configButton |-> IF button # Undefined
                         THEN [button EXCEPT !.shown = FALSE] ELSE button]

\* ------------------------------------------------------------------ state

VARIABLES
  workspaceFolders,   \* workspace.workspaceFolders with each folder's launch settings
  showInStatusBar,    \* the persistentRunButton.showInStatusBar setting
  lastConfigKey,      \* context.workspaceState 'lastConfigKey'
  activated,          \* activate(context) has run
  selectedConfig,     \* let selectedConfig: LaunchConfig | undefined
  configButton,       \* let configButton: StatusBarItem | undefined
  selPc,              \* where the selectConfig handler is suspended
  selItems,           \* the items the open quick pick was given
  cmdPc,              \* where the runSelected / debugSelected handler is suspended
  cmdNoDebug,         \* which of the two it is: run passes {noDebug: true}
  calls               \* history: what the last step called, with what it saw

vars == <<workspaceFolders, showInStatusBar, lastConfigKey, activated,
          selectedConfig, configButton, selPc, selItems, cmdPc, cmdNoDebug,
          calls>>

\* The keys an earlier session may have left in the workspace state: nothing,
\* the empty string, a string without separator, or the key of some entry.
StartupKeys ==
  { Undefined, Str(<<>>), Str(NameA),
    Str(NameA \o <<Colon>> \o Test),
    Str(NameB \o <<Colon>> \o Launch),
    Str(NameA \o <<Colon>> \o LaunchTest),
    Str(NameAL \o <<Colon>> \o Test) }

PersistedKeys == { Undefined, Str(NameB \o <<Colon>> \o Launch) }

\* Module load: nothing selected, no status bar item, no handler running.
Loaded ==
  /\ activated = FALSE
  /\ selectedConfig = Undefined
  /\ configButton = Undefined
  /\ selPc = "idle"
  /\ selItems = <<>>
  /\ cmdPc = "idle"
  /\ cmdNoDebug = FALSE
  /\ calls = <<>>

Init ==
  /\ workspaceFolders \in Workspaces
  /\ showInStatusBar \in BOOLEAN
  /\ lastConfigKey \in PersistedKeys
  /\ Loaded

\* Startup alone, over every workspace and key a session may start with.
StartupInit ==
  /\ workspaceFolders \in StartupWorkspaces
  /\ showInStatusBar \in BOOLEAN
  /\ lastConfigKey \in StartupKeys
  /\ Loaded

\* History record of one updateStatusBar call: who called it, the selection and
\* the enumeration it found, and the selection and button it left.
StatusBarCall(from, sel, button, ws, res) ==
  [op |-> "updateStatusBar", from |-> from, before |-> sel, hadButton |-> button # Undefined,
   configs |-> getAllConfigs(ws), after |-> res.selectedConfig,
   button |-> res.configButton]

\* ---------------------------------------------------------------- startup

\* A string is truthy unless it is undefined or empty.
Truthy(v) == v # Undefined /\ v.value # <<>>

\* The selection activate() arrives at before it builds the status bar.
initialSelection(key, sel, ws) ==
  LET restored == IF Truthy(key) THEN getConfigFromKey(key.value, ws) ELSE sel
      configs == getAllConfigs(ws)
  IN IF restored = Undefined /\ Len(configs) > 0 THEN configs[1] ELSE restored

Activate ==
  /\ ~activated
  /\ activated' = TRUE
  /\ LET sel == initialSelection(lastConfigKey, selectedConfig, workspaceFolders)
         res == updateStatusBarVisibility(sel, configButton, showInStatusBar,
                                          workspaceFolders)
     IN /\ selectedConfig' = res.selectedConfig
        /\ configButton' = res.configButton
        /\ calls' = IF showInStatusBar
                    THEN <<StatusBarCall("activate", sel, NewButton,
                                         workspaceFolders, res)>>
                    ELSE <<>>
  /\ UNCHANGED <<workspaceFolders, showInStatusBar, lastConfigKey, selPc,
                 selItems, cmdPc, cmdNoDebug>>

\* ----------------------------------------------------- change notification

FoldersOf(ws) == [i \in 1..Len(ws) |-> ws[i].folder]

\* A folder that stays in the workspace keeps its launch settings.
KeepsLaunch(old, new) ==
  \A i \in 1..Len(old) : \A j \in 1..Len(new) :
    old[i].folder = new[j].folder => old[i].launch = new[j].launch

\* workspace.onDidChangeWorkspaceFolders: folders were added or removed; the
\* handler calls updateStatusBar().
OnDidChangeWorkspaceFolders ==
  /\ activated
  /\ \E ws \in Workspaces :
       /\ FoldersOf(ws) # FoldersOf(workspaceFolders)
       /\ KeepsLaunch(workspaceFolders, ws)
       /\ workspaceFolders' = ws
       /\ LET res == updateStatusBar(selectedConfig, configButton, ws)
          IN /\ selectedConfig' = res.selectedConfig
             /\ configButton' = res.configButton
             /\ calls' = <<StatusBarCall("onDidChangeWorkspaceFolders",
                                         selectedConfig, configButton, ws, res)>>
  /\ UNCHANGED <<showInStatusBar, lastConfigKey, activated, selPc, selItems,
                 cmdPc, cmdNoDebug>>

\* workspace.onDidChangeConfiguration: e.affectsConfiguration('launch') when a
\* folder's launch settings changed, and
\* e.affectsConfiguration('persistentRunButton.showInStatusBar') when that
\* setting changed; the handler tests both, in this order.
OnDidChangeConfiguration ==
  /\ activated
  /\ \E ws \in Workspaces, show \in BOOLEAN :
       /\ FoldersOf(ws) = FoldersOf(workspaceFolders)
       /\ ws # workspaceFolders \/ show # showInStatusBar
       /\ workspaceFolders' = ws
       /\ showInStatusBar' = show
       /\ LET affectsLaunch == ws # workspaceFolders
              affectsShow == show # showInStatusBar
              r1 == IF affectsLaunch
                    THEN updateStatusBar(selectedConfig, configButton, ws)
                    ELSE [selectedConfig |-> selectedConfig,
                          configButton |-> configButton]
              r2 == IF affectsShow
                    THEN updateStatusBarVisibility(r1.selectedConfig,
                                                   r1.configButton, show, ws)
                    ELSE r1
              shown == IF r1.configButton = Undefined THEN NewButton
                       ELSE r1.configButton
          IN /\ selectedConfig' = r2.selectedConfig
             /\ configButton' = r2.configButton
             /\ calls' =
                  (IF affectsLaunch
                   THEN <<StatusBarCall("onDidChangeConfiguration", selectedConfig,
                                        configButton, ws, r1)>>
                   ELSE <<>>)
                  \o (IF affectsShow /\ show
                      THEN <<StatusBarCall("updateStatusBarVisibility",
                                           r1.selectedConfig, shown, ws, r2)>>
                      ELSE <<>>)
  /\ UNCHANGED <<lastConfigKey, activated, selPc, selItems, cmdPc, cmdNoDebug>>

\* ------------------------------------------- persistentRunButton.selectConfig

\* The handler up to its first await: with no configurations it shows the
\* information message, otherwise the quick pick over the entries it read.
\* It yields the handler's new position, the items handed to the quick pick
\* and the call made.
selectConfigStart(ws) ==
  LET configs == getAllConfigs(ws)
  IN IF Len(configs) = 0
     THEN [pc |-> "message", items |-> <<>>,
           call |-> [op |-> "showInformationMessage",
                     message |-> "No debug configurations found."]]
     ELSE [pc |-> "quickPick", items |-> configs,
           call |-> [op |-> "showQuickPick", items |-> configs]]

\* The user runs the select command (the configuration button's command).
\* One instance of the handler runs at a time.
SelectConfig ==
  /\ activated
  /\ selPc = "idle"
  /\ LET go == selectConfigStart(workspaceFolders)
     IN /\ selPc' = go.pc
        /\ selItems' = go.items
        /\ calls' = <<go.call>>
  /\ UNCHANGED <<workspaceFolders, showInStatusBar, lastConfigKey, activated,
                 selectedConfig, configButton, cmdPc, cmdNoDebug>>

\* showInformationMessage resolves: with the 'Create Configuration' button the
\* handler awaits workbench.action.debug.configure, dismissed it returns.
MessageReturns ==
  /\ selPc = "message"
  /\ \E result \in BOOLEAN :
       selPc' = IF result THEN "configure" ELSE "idle"
  /\ calls' = <<>>
  /\ UNCHANGED <<workspaceFolders, showInStatusBar, lastConfigKey, activated,
                 selectedConfig, configButton, selItems, cmdPc, cmdNoDebug>>

\* workbench.action.debug.configure resolves; the handler returns.
ConfigureReturns ==
  /\ selPc = "configure"
  /\ selPc' = "idle"
  /\ calls' = <<>>
  /\ UNCHANGED <<workspaceFolders, showInStatusBar, lastConfigKey, activated,
                 selectedConfig, configButton, selItems, cmdPc, cmdNoDebug>>

\* The quick pick's continuation without the workspaceState.update call.
QuickPickReturnsUnsaved ==
  /\ selPc = "quickPick"
  /\ \E choice \in 0..Len(selItems) :
       IF choice = 0
       THEN /\ selPc' = "idle"
            /\ calls' = <<[op |-> "quickPickDismissed"]>>
            /\ UNCHANGED selectedConfig
       ELSE /\ selectedConfig' = selItems[choice]
            /\ selPc' = "update"
            /\ calls' = <<[op |-> "update", picked |-> selItems[choice]]>>
  /\ selItems' = <<>>
  /\ UNCHANGED <<workspaceFolders, showInStatusBar, lastConfigKey, activated,
                 configButton, cmdPc, cmdNoDebug>>

\* The quick pick's continuation assigning selectedConfig before it looks at
\* the result (selectedConfig = selected?.config).
QuickPickReturnsClearing ==
  /\ selPc = "quickPick"
  /\ \E choice \in 0..Len(selItems) :
       IF choice = 0
       THEN /\ selPc' = "idle"
            /\ selectedConfig' = Undefined
            /\ calls' = <<[op |-> "quickPickDismissed"]>>
            /\ UNCHANGED lastConfigKey
       ELSE /\ selectedConfig' = selItems[choice]
            /\ lastConfigKey' = Str(getConfigKey(selItems[choice]))
            /\ selPc' = "update"
            /\ calls' = <<[op |-> "update", picked |-> selItems[choice]]>>
  /\ selItems' = <<>>
  /\ UNCHANGED <<workspaceFolders, showInStatusBar, activated, configButton,
                 cmdPc, cmdNoDebug>>

\* showQuickPick resolves with one of the items it was given, or with
\* undefined when dismissed (choice 0, recorded in calls). A pick sets selectedConfig, computes
\* the key and hands it to workspaceState.update, whose value is in the store
\* from the call on; the handler then awaits the update.
QuickPickReturns ==
  /\ selPc = "quickPick"
  /\ \E choice \in 0..Len(selItems) :
       IF choice = 0
       THEN /\ selPc' = "idle"
            /\ calls' = <<[op |-> "quickPickDismissed"]>>
            /\ UNCHANGED <<selectedConfig, lastConfigKey>>
       ELSE /\ selectedConfig' = selItems[choice]
            /\ lastConfigKey' = Str(getConfigKey(selItems[choice]))
            /\ selPc' = "update"
            /\ calls' = <<[op |-> "update", picked |-> selItems[choice]]>>
  /\ selItems' = <<>>
  /\ UNCHANGED <<workspaceFolders, showInStatusBar, activated, configButton,
                 cmdPc, cmdNoDebug>>

\* workspaceState.update resolves: registerSelectConfigCommand() (the same
\* handler under the same id) and updateStatusBar(); the handler returns.
UpdateReturns ==
  /\ selPc = "update"
  /\ selPc' = "idle"
  /\ LET res == updateStatusBar(selectedConfig, configButton, workspaceFolders)
     IN /\ selectedConfig' = res.selectedConfig
        /\ configButton' = res.configButton
        /\ calls' = <<StatusBarCall("selectConfig", selectedConfig, configButton,
                                    workspaceFolders, res)>>
  /\ UNCHANGED <<workspaceFolders, showInStatusBar, lastConfigKey, activated,
                 selItems, cmdPc, cmdNoDebug>>

\* ------------------------- persistentRunButton.runSelected / debugSelected

\* const configToStart = isCompound(config) ? config.name : config
configToStart(sel) ==
  IF isCompound(sel.config) THEN [nameOf |-> sel.config.name]
  ELSE [configuration |-> sel.config]

\* The arguments when only the run command looks at isCompound and the debug
\* command passes the configuration object.
startDebuggingDebugByValue(sel, noDebug) ==
  [folder |-> sel.folder,
   nameOrConfiguration |-> IF noDebug THEN configToStart(sel)
                           ELSE [configuration |-> sel.config],
   noDebug |-> noDebug]

\* The arguments of debug.startDebugging(folder, configToStart, options).
startDebugging(sel, noDebug) ==
  [folder |-> sel.folder, nameOrConfiguration |-> configToStart(sel),
   noDebug |-> noDebug]

\* History record of one startDebugging call: its arguments, the selection it
\* was made for and the enumeration at that moment.
StartCall(sel, noDebug, ws) ==
  [op |-> "startDebugging", args |-> startDebugging(sel, noDebug),
   selected |-> sel, configs |-> getAllConfigs(ws)]

\* The user runs the run (noDebug) or the debug command. With a selection the
\* handler goes straight to startDebugging; without one it executes the
\* select command and awaits it. One instance of each handler runs at a time.
RunOrDebugSelected ==
  /\ activated
  /\ cmdPc = "idle"
  /\ \E noDebug \in BOOLEAN :
       /\ cmdNoDebug' = noDebug
       /\ IF selectedConfig = Undefined
          THEN /\ selPc = "idle"
               /\ LET go == selectConfigStart(workspaceFolders)
                  IN /\ selPc' = go.pc
                     /\ selItems' = go.items
                     /\ calls' = <<go.call>>
               /\ cmdPc' = "select"
          ELSE /\ cmdPc' = "start"
               /\ calls' = <<StartCall(selectedConfig, noDebug,
                                       workspaceFolders)>>
               /\ UNCHANGED <<selPc, selItems>>
  /\ UNCHANGED <<workspaceFolders, showInStatusBar, lastConfigKey, activated,
                 selectedConfig, configButton>>

\* The continuation starting the enumeration's first entry when the select
\* command has left nothing selected.
SelectReturnedFirstEntry ==
  /\ cmdPc = "select"
  /\ selPc = "idle"
  /\ LET configs == getAllConfigs(workspaceFolders)
     IN IF selectedConfig # Undefined
        THEN /\ cmdPc' = "start"
             /\ calls' = <<StartCall(selectedConfig, cmdNoDebug, workspaceFolders)>>
        ELSE IF Len(configs) > 0
        THEN /\ cmdPc' = "start"
             /\ calls' = <<StartCall(configs[1], cmdNoDebug, workspaceFolders)>>
        ELSE /\ cmdPc' = "idle"
             /\ calls' = <<>>
  /\ UNCHANGED <<workspaceFolders, showInStatusBar, lastConfigKey, activated,
                 selectedConfig, configButton, selPc, selItems, cmdNoDebug>>

\* The awaited select command has returned: selectedConfig is read again, and
\* the handler returns without it or goes on to startDebugging.
SelectReturned ==
  /\ cmdPc = "select"
  /\ selPc = "idle"
  /\ IF selectedConfig = Undefined
     THEN /\ cmdPc' = "idle"
          /\ calls' = <<>>
     ELSE /\ cmdPc' = "start"
          /\ calls' = <<StartCall(selectedConfig, cmdNoDebug, workspaceFolders)>>
  /\ UNCHANGED <<workspaceFolders, showInStatusBar, lastConfigKey, activated,
                 selectedConfig, configButton, selPc, selItems, cmdNoDebug>>

\* debug.startDebugging resolves; the handler returns.
StartDebuggingReturns ==
  /\ cmdPc = "start"
  /\ cmdPc' = "idle"
  /\ calls' = <<>>
  /\ UNCHANGED <<workspaceFolders, showInStatusBar, lastConfigKey, activated,
                 selectedConfig, configButton, selPc, selItems, cmdNoDebug>>

\* ---------------------------------------------------------- specification

Next ==
  \/ Activate
  \/ OnDidChangeWorkspaceFolders
  \/ OnDidChangeConfiguration
  \/ SelectConfig
  \/ MessageReturns
  \/ ConfigureReturns
  \/ QuickPickReturns
  \/ UpdateReturns
  \/ RunOrDebugSelected
  \/ SelectReturned
  \/ StartDebuggingReturns

Spec == Init /\ [][Next]_vars

StartupNext == Activate

StartupSpec == StartupInit /\ [][StartupNext]_vars

\* ------------------------------------------------------------------ claims

\* The updateStatusBar calls and the startDebugging calls of the last step.
StatusBarCalls == { calls[i] : i \in { j \in 1..Len(calls) : calls[j].op = "updateStatusBar" } }

StartCalls == { calls[i] : i \in { j \in 1..Len(calls) : calls[j].op = "startDebugging" } }

\* The reconcile steps a change signal triggers.
ChangeSignals == { "onDidChangeWorkspaceFolders", "onDidChangeConfiguration" }

\* No handler is suspended.
Quiescent == selPc = "idle" /\ cmdPc = "idle"

\* The text of a key before its first separator, and the text after it.
RECURSIVE BeforeColon(_)
BeforeColon(s) ==
  IF Len(s) = 0 \/ Head(s) = Colon THEN <<>>
  ELSE <<Head(s)>> \o BeforeColon(Tail(s))

RECURSIVE AfterColon(_)
AfterColon(s) ==
  IF Len(s) = 0 THEN <<>>
  ELSE IF Head(s) = Colon THEN Tail(s)
  ELSE AfterColon(Tail(s))

HasColon(s) == \E i \in 1..Len(s) : s[i] = Colon

\* The first entry of an enumeration among the given positions.
FirstAt(configs, at) == configs[CHOOSE i \in at : \A j \in at : i <= j]

\* The positions whose root name and configuration name are the two
\* components of the key (root name, separator, configuration name).
KeyMatches(configs, key) ==
  { i \in 1..Len(configs) :
      /\ HasColon(key)
      /\ configs[i].folder.name = BeforeColon(key)
      /\ configs[i].name = AfterColon(key) }

\* The startup selection as the specification describes it.
StartupSelection(ws, key) ==
  LET configs == getAllConfigs(ws)
      at == IF key = Undefined THEN {} ELSE KeyMatches(configs, key.value)
  IN IF at # {} THEN FirstAt(configs, at)
     ELSE IF Len(configs) > 0 THEN configs[1]
     ELSE Undefined

\* C1: after activate, the Active Selection is the first enumerated entry whose
\* root name and configuration name match the persisted key, if there is a key
\* and such an entry; otherwise the first entry of the enumeration; otherwise
\* none.
C1_StartupSelection ==
  [][(~activated /\ activated') =>
       selectedConfig' = StartupSelection(workspaceFolders, lastConfigKey)]_vars

\* C2: whenever updateStatusBar runs with a selection that matches no entry of
\* a non-empty enumeration, it leaves the first entry selected, whether or not
\* the status bar item exists.
C2_ReconcileRepairsStale ==
  \A c \in StatusBarCalls :
    (c.before # Undefined /\ ~stillExists(c.before, c.configs)
       /\ Len(c.configs) > 0)
      => c.after = c.configs[1]

\* C3: whenever updateStatusBar runs on an empty enumeration, it leaves nothing
\* selected, whatever was selected before.
C3_ReconcileClearsOnEmpty ==
  \A c \in StatusBarCalls : Len(c.configs) = 0 => c.after = Undefined

\* C4: when the handler of a workspace-folders change or of a launch
\* configuration change has completed, the Active Selection is none or names
\* an entry of the enumeration as it then is.
C4_ChangeRevalidates ==
  (\E c \in StatusBarCalls : c.from \in ChangeSignals)
    => \/ selectedConfig = Undefined
       \/ stillExists(selectedConfig, getAllConfigs(workspaceFolders))

\* C5: every startDebugging call made by run or debug is for an entry whose
\* root name and configuration name exist in the enumeration at that moment.
C5_NoStaleDispatch ==
  \A c \in StartCalls : stillExists(c.selected, c.configs)

\* C6: run and debug hand startDebugging the configuration's name exactly when
\* the configuration has a 'configurations' property and no 'type' property, and
\* the configuration object in every other case.
C6_DispatchTargetShape ==
  \A c \in StartCalls :
    LET config == c.selected.config
    IN IF config.configurations /\ ~config.type
       THEN c.args.nameOrConfiguration = [nameOf |-> config.name]
       ELSE c.args.nameOrConfiguration = [configuration |-> config]

\* C6 witness: a configuration carrying both properties was started by value.
C6_Witness ==
  \E c \in StartCalls :
    /\ c.selected.config.configurations /\ c.selected.config.type
    /\ c.args.nameOrConfiguration = [configuration |-> c.selected.config]

\* The position of every entry sharing an entry's root name and name.
SamePair(configs, e) ==
  { j \in 1..Len(configs) :
      configs[j].folder.name = e.folder.name /\ configs[j].name = e.name }

C8_KeyTracksSelection ==
  (activated /\ Quiescent /\ selectedConfig # Undefined)
    => lastConfigKey = Str(getConfigKey(selectedConfig))

\* C8 amended: the persisted key is written by a confirmed pick of the select
\* command, with the key of the picked item, and by nothing else: startup
\* defaulting and updateStatusBar change the selection without writing it.
C8_KeyWrittenOnPickOnly ==
  [][/\ lastConfigKey' # lastConfigKey => (selPc = "quickPick" /\ selPc' = "update")
     /\ (selPc = "quickPick" /\ selPc' = "update") =>
          /\ \E i \in 1..Len(selItems) : selectedConfig' = selItems[i]
          /\ lastConfigKey' = Str(getConfigKey(selectedConfig'))]_vars

\* C8 witness: the select handler has finished after a pick that
\* updateStatusBar replaced, and the persisted key is still the pick's.
C8_Witness ==
  \E c \in StatusBarCalls :
    /\ c.from = "selectConfig"
    /\ c.after # c.before /\ c.after # Undefined
    /\ selectedConfig = c.after
    /\ lastConfigKey = Str(getConfigKey(c.before))
    /\ lastConfigKey # Str(getConfigKey(c.after))

\* C9: running updateStatusBar again, on what a run of it left and the same
\* enumeration, changes neither the selection nor the label.
C9_ReconcileIdempotent ==
  \A c \in StatusBarCalls :
    updateStatusBar(c.after, c.button, workspaceFolders)
      = [selectedConfig |-> c.after, configButton |-> c.button]

\* C9 witness: updateStatusBar has replaced a selection.
C9_Witness ==
  \E c \in StatusBarCalls :
    c.hadButton /\ c.before # Undefined /\ c.after # c.before

\* C10 as stated: a reconcile triggered by a change signal with nothing
\* selected and a non-empty enumeration selects the first entry.
C10_RecoversFromEmpty ==
  \A c \in StatusBarCalls :
    (c.from \in ChangeSignals /\ c.before = Undefined /\ Len(c.configs) > 0)
      => c.after = c.configs[1]

\* C10 amended: once activated, nothing but a confirmed pick of the select
\* command takes the Active Selection from none to an entry; a reconcile
\* leaves it none.
C10_LeavesEmptyByPickOnly ==
  [][(activated /\ selectedConfig = Undefined /\ selectedConfig' # Undefined)
       => (selPc = "quickPick" /\ selPc' = "update")]_vars

\* C10 witness: a change signal was handled with the status bar item present,
\* nothing selected and entries to choose from, and nothing is selected.
C10_Witness ==
  \E c \in StatusBarCalls :
    /\ c.from \in ChangeSignals /\ c.hadButton
    /\ c.before = Undefined /\ Len(c.configs) > 0
    /\ c.after = Undefined /\ selectedConfig = Undefined

\* The enumeration is empty.
NoConfigs == Len(getAllConfigs(workspaceFolders)) = 0

\* The step is the user invoking the select command, or run or debug.
Invoked ==
  \/ selPc = "idle" /\ selPc' # "idle"
  \/ cmdPc = "idle" /\ cmdPc' # "idle"

\* C11: when select, run or debug is invoked while the enumeration is empty,
\* the 'No debug configurations found.' message is shown, startDebugging is
\* not called and the Active Selection is left as it was.
C11_EmptySetPrompt ==
  [][(activated /\ NoConfigs /\ Invoked) =>
       /\ selPc' = "message"
       /\ \E i \in 1..Len(calls') : calls'[i].op = "showInformationMessage"
       /\ StartCalls' = {}
       /\ selectedConfig' = selectedConfig]_vars

\* The step belongs to a run of the select handler that ends without a pick:
\* the handler starts, the quick pick is dismissed, or the empty-set message
\* or the configure command it leads to returns.
SelectStepWithoutPick ==
  \/ selPc = "idle" /\ selPc' \in {"quickPick", "message"}
  \/ selPc = "quickPick" /\ selPc' = "idle"
  \/ selPc = "message" /\ selPc' \in {"configure", "idle"}
  \/ selPc = "configure" /\ selPc' = "idle"

\* C12: a select command that ends without a pick (picker or empty-set
\* message dismissed) changes neither the Active Selection nor the persisted
\* key in any of its steps, and a run or debug command that resumes from the
\* select command with no selection returns without calling startDebugging.
C12_CancelLeavesState ==
  [][/\ SelectStepWithoutPick =>
          /\ selectedConfig' = selectedConfig
          /\ lastConfigKey' = lastConfigKey
     /\ (cmdPc = "select" /\ cmdPc' # "select" /\ selectedConfig = Undefined) =>
          /\ cmdPc' = "idle"
          /\ StartCalls' = {}]_vars

\* The picker opened by a run or debug command without a selection has been
\* dismissed, and there is still no selection.
C12_Witness ==
  /\ cmdPc = "select"
  /\ selPc = "idle"
  /\ calls = <<[op |-> "quickPickDismissed"]>>
  /\ selectedConfig = Undefined

\* C13: whenever startDebugging is called for a selection whose (root name,
\* configuration name) the enumeration still holds, the payload the call is
\* made with (and so its plain-or-compound decision) is the payload of an
\* entry the enumeration reports for that pair at that moment.
C13_FreshPayload ==
  \A c \in StartCalls :
    SamePair(c.configs, c.selected) # {} =>
      \E j \in SamePair(c.configs, c.selected) :
        c.configs[j].config = c.selected.config

\* The number of entries the folders before the r-th one declare.
RECURSIVE DeclaredBefore(_, _)
DeclaredBefore(ws, r) ==
  IF r = 1 THEN 0
  ELSE DeclaredBefore(ws, r - 1) + Len(ws[r - 1].launch.configurations)
                                 + Len(ws[r - 1].launch.compounds)

\* C14: getAllConfigs holds, folder after folder in workspace order, the
\* folder's plain configurations in declaration order and then its compounds
\* in declaration order, each with its name and its owning folder, and nothing
\* else: a folder that declares nothing contributes nothing, and no folders
\* give the empty list.
C14_EnumerationOrder ==
  LET ws == workspaceFolders
      configs == getAllConfigs(ws)
  IN /\ Len(configs) = DeclaredBefore(ws, Len(ws) + 1)
     /\ \A r \in 1..Len(ws) :
          LET plain == ws[r].launch.configurations
              compounds == ws[r].launch.compounds
              at == DeclaredBefore(ws, r)
          IN /\ \A k \in 1..Len(plain) :
                  configs[at + k] =
                    [name |-> plain[k].name, config |-> plain[k], folder |-> ws[r].folder]
             /\ \A k \in 1..Len(compounds) :
                  configs[at + Len(plain) + k] =
                    [name |-> compounds[k].name, config |-> compounds[k],
                     folder |-> ws[r].folder]

\* Activation enumerated several folders, the first declaring several plain
\* configurations and several compounds, the last at least one entry.
C14_Witness ==
  /\ activated
  /\ Len(workspaceFolders) > 1
  /\ Len(workspaceFolders[1].launch.configurations) > 1
  /\ Len(workspaceFolders[1].launch.compounds) > 1
  /\ DeclaredBefore(workspaceFolders, Len(workspaceFolders) + 1)
       > DeclaredBefore(workspaceFolders, Len(workspaceFolders))
  /\ \E c \in StatusBarCalls : c.configs = getAllConfigs(workspaceFolders)

\* C15: getConfigFromKey(key) is the first enumerated entry whose root name is
\* the text of the key before its first ':' and whose configuration name is
\* all the text after it, and is undefined when there is no such entry or the
\* key has no ':'; activation with a key that resolves to nothing selects
\* what it selects without a key.
C15_KeyResolution ==
  lastConfigKey # Undefined =>
    LET configs == getAllConfigs(workspaceFolders)
        at == KeyMatches(configs, lastConfigKey.value)
    IN /\ getConfigFromKey(lastConfigKey.value, workspaceFolders) =
            (IF at # {} THEN FirstAt(configs, at) ELSE Undefined)
       /\ (activated /\ at = {}) =>
            selectedConfig = StartupSelection(workspaceFolders, Undefined)

ShownFor(sel) ==
  IF sel # Undefined THEN <<"$(debug-configure) ">> \o sel.name
  ELSE <<"$(debug-configure) ", "No Config">>

\* C17 as stated: every updateStatusBar run on the status bar item leaves the
\* label of the selection it leaves, and the item never shows anything but the
\* label of the Active Selection.
C17_LabelMatchesSelection ==
  /\ \A c \in StatusBarCalls : c.hadButton => c.button.text = ShownFor(c.after)
  /\ configButton # Undefined => configButton.text = ShownFor(selectedConfig)

\* C17 amended: every updateStatusBar run on the status bar item leaves the
\* label of the selection it leaves, and the item shows the label of the Active
\* Selection in every state but those where the select handler, after a pick,
\* awaits workspaceState.update and has not refreshed the label yet.
C17_LabelMatchesOutsidePick ==
  /\ \A c \in StatusBarCalls : c.hadButton => c.button.text = ShownFor(c.after)
  /\ (configButton # Undefined /\ selPc # "update")
       => configButton.text = ShownFor(selectedConfig)

\* C17 witness: the refresh that ends a select command has put the name of a
\* picked entry other than the enumeration's first on the label.
C17_Witness ==
  \E c \in StatusBarCalls :
    /\ c.from = "selectConfig" /\ c.hadButton
    /\ c.after # Undefined /\ c.after = selectedConfig
    /\ Len(c.configs) > 0 /\ c.after # c.configs[1]
    /\ configButton.text = ShownFor(c.after)

\* C18: whenever updateStatusBar runs with a selection whose (root name,
\* configuration name) some entry of the enumeration has, it leaves that
\* selection as it found it, wherever the entry stands in the enumeration.
C18_ValidSelectionKept ==
  \A c \in StatusBarCalls :
    (c.before # Undefined /\ SamePair(c.configs, c.before) # {})
      => c.after = c.before

\* C18 witness: a change signal was handled on the status bar item while the
\* selection's pair stood in the enumeration, not at its head, with other
\* contents than the selection holds; the selection was kept.
C18_Witness ==
  \E c \in StatusBarCalls :
    /\ c.from \in ChangeSignals /\ c.hadButton
    /\ c.before # Undefined
    /\ SamePair(c.configs, c.before) # {}
    /\ ~(1 \in SamePair(c.configs, c.before))
    /\ \A j \in SamePair(c.configs, c.before) : c.configs[j] # c.before
    /\ c.after = c.before

\* C19: a step calls startDebugging only as the step of a run or debug command
\* that has not called it yet, once, with the Active Selection set at that
\* step, for that selection and with its owning folder; a command that has
\* called it does nothing more than return.
C19_DispatchNeedsSelection ==
  [][/\ StartCalls' # {} =>
          /\ cmdPc \in {"idle", "select"} /\ cmdPc' = "start"
          /\ Len(calls') = 1
          /\ selectedConfig # Undefined
          /\ selectedConfig' = selectedConfig
          /\ \A c \in StartCalls' :
               /\ c.selected = selectedConfig
               /\ c.args.folder = selectedConfig.folder
     /\ cmdPc = "start" => (StartCalls' = {} /\ cmdPc' \in {"start", "idle"})]_vars

\* C19 witness: startDebugging has been called for the Active Selection, an
\* entry the user picked in this session, with its owning folder.
C19_Witness ==
  /\ cmdPc = "start"
  /\ selectedConfig # Undefined
  /\ lastConfigKey = Str(getConfigKey(selectedConfig))
  /\ lastConfigKey \notin PersistedKeys
  /\ \E c \in StartCalls :
       c.selected = selectedConfig /\ c.args.folder = selectedConfig.folder

====
